---------------------------- MODULE Spec2Model ----------------------------
(***************************************************************************)
(* A model of the FLV decoder of src/src/parser.rs.                        *)
(*                                                                         *)
(* The decoders are pure functions over a byte slice, written with the     *)
(* streaming combinators of nom 7.  Each decoder is an operator from a     *)
(* byte sequence to an outcome:                                            *)
(*    [k |-> "Complete", rest, v]     Ok((rest, v))                        *)
(*    [k |-> "Incomplete", needed]    Err(Err::Incomplete(Needed::new(n))) *)
(*    [k |-> "Error", kind]           Err(Err::Error(..)),   recoverable   *)
(*    [k |-> "Failure", kind]         Err(Err::Failure(..)), not recovered *)
(* Error and Failure are both the "hard failure" of the specification;     *)
(* many0 and many_m_n tell them apart.                                     *)
(*                                                                         *)
(* The state machine is a streaming caller: a producer holds `stream`, the *)
(* caller has buffered its first `avail` bytes, and calls a decoder on the *)
(* buffer, keeping the outcome in `result`.                                *)
(*                                                                         *)
(* u32 values are kept as two 16-bit limbs <<hi, lo>>, so that the full    *)
(* 32-bit range and its overflow are represented.  Lengths that are        *)
(* compared with the length of the input are converted to naturals.        *)
(***************************************************************************)
EXTENDS Integers, Sequences, FiniteSets, TLC

VARIABLES sent, stream, avail, call, size, result

vars == <<sent, stream, avail, call, size, result>>

(***************************************************************************)
(* Bounds of the model.                                                    *)
(***************************************************************************)
\* largest `size` argument handed to audio_data / video_data
MaxSize == 3
\* largest data_size field of the generated tags (one larger field is added)
MaxData == 2
\* most (name, value) pairs in a generated object list
MaxPairs == 2
\* deepest nesting of the generated metadata values
MaxDepth == 1

(***************************************************************************)
(* Outcomes (nom::IResult) and slices.                                     *)
(***************************************************************************)
Ok(rest, v) == [k |-> "Complete", rest |-> rest, v |-> v]

Incomplete(n) == [k |-> "Incomplete", needed |-> n]

Error(kind) == [k |-> "Error", kind |-> kind]

Failure(kind) == [k |-> "Failure", kind |-> kind]

IsOk(r) == r.k = "Complete"

IsIncomplete(r) == r.k = "Incomplete"

\* the specification's hard failure: Err::Error or Err::Failure
IsFailure(r) == r.k \in {"Error", "Failure"}

\* &input[n..]
Drop(s, n) == SubSeq(s, n + 1, Len(s))

\* &input[a..b]
Slice(s, a, b) == SubSeq(s, a + 1, b)

\* &input[..n]
Take(s, n) == SubSeq(s, 1, n)

\* input.iter_elements().take(n): at most n elements
IterTake(s, n) == SubSeq(s, 1, IF n < Len(s) THEN n ELSE Len(s))

(***************************************************************************)
(* nom::number::streaming: fixed-width big-endian readers.  Each asks for  *)
(* the bytes it still misses: Needed::new(bound - input.len()).            *)
(***************************************************************************)
be_u8(i) ==
  IF Len(i) < 1 THEN Incomplete(1 - Len(i))
  ELSE Ok(Drop(i, 1), i[1])

be_u16(i) ==
  IF Len(i) < 2 THEN Incomplete(2 - Len(i))
  ELSE Ok(Drop(i, 2), i[1] * 256 + i[2])

be_u24(i) ==
  IF Len(i) < 3 THEN Incomplete(3 - Len(i))
  ELSE Ok(Drop(i, 3), (i[1] * 256 + i[2]) * 256 + i[3])

\* a u32 as <<high 16 bits, low 16 bits>>
be_u32(i) ==
  IF Len(i) < 4 THEN Incomplete(4 - Len(i))
  ELSE Ok(Drop(i, 4), <<i[1] * 256 + i[2], i[3] * 256 + i[4]>>)

\* an i16: two's complement of the 16-bit field
be_i16(i) ==
  IF Len(i) < 2 THEN Incomplete(2 - Len(i))
  ELSE LET u == i[1] * 256 + i[2]
       IN  Ok(Drop(i, 2), IF u >= 32768 THEN u - 65536 ELSE u)

\* an i24: the 24-bit field sign-extended
be_i24(i) ==
  IF Len(i) < 3 THEN Incomplete(3 - Len(i))
  ELSE LET u == (i[1] * 256 + i[2]) * 256 + i[3]
       IN  Ok(Drop(i, 3), IF u >= 8388608 THEN u - 16777216 ELSE u)

\* an f64 as its IEEE-754 bit pattern, four 16-bit limbs, most significant first
be_f64(i) ==
  IF Len(i) < 8 THEN Incomplete(8 - Len(i))
  ELSE Ok(Drop(i, 8), [j \in 1..4 |-> i[2 * j - 1] * 256 + i[2 * j]])

\* usize of a u32 (as usize); the model's lengths stay below 2^31
U32ToNat(x) == x[1] * 65536 + x[2]

(***************************************************************************)
(* nom::bytes::streaming::tag.  <&[u8] as Compare>::compare looks at the   *)
(* bytes both have: a differing byte is an Error whatever the length, and  *)
(* only an input that is a proper prefix of the tag is Incomplete.         *)
(***************************************************************************)
\* tag that asks for the missing bytes before it compares any
tag_LengthFirst(t, i) ==
  IF Len(i) < Len(t) THEN Incomplete(Len(t) - Len(i))
  ELSE IF Take(i, Len(t)) # t THEN Error("Tag")
  ELSE Ok(Drop(i, Len(t)), Take(i, Len(t)))

tag(t, i) ==
  LET n == IF Len(i) < Len(t) THEN Len(i) ELSE Len(t)
  IN  IF \E j \in 1..n : i[j] # t[j] THEN Error("Tag")
      ELSE IF Len(i) >= Len(t) THEN Ok(Drop(i, Len(t)), Take(i, Len(t)))
      ELSE Incomplete(Len(t) - Len(i))

(***************************************************************************)
(* nom::sequence::tuple / pair: the parsers in order, the first outcome    *)
(* that is not Complete is the outcome of the whole.  Parsers are named.   *)
(***************************************************************************)
\* "FLV"
FLV == <<70, 76, 86>>

\* fn tag_type
tag_type(input) ==
  LET r == be_u8(input)
  IN  IF ~IsOk(r) THEN r
      ELSE IF r.v = 8 THEN Ok(r.rest, "Audio")
      ELSE IF r.v = 9 THEN Ok(r.rest, "Video")
      ELSE IF r.v = 18 THEN Ok(r.rest, "Script")
      ELSE Error("Alt")

\* fn packet_type: the AVC packet type of the first byte
packet_type(input) ==
  LET r == be_u8(input)
  IN  IF ~IsOk(r) THEN r
      ELSE IF r.v = 0 THEN Ok(r.rest, "SequenceHeader")
      ELSE IF r.v = 1 THEN Ok(r.rest, "NALU")
      ELSE IF r.v = 2 THEN Ok(r.rest, "EndOfSequence")
      ELSE Error("Alt")

\* the parser a tuple names, applied to i
Parse(name, i) ==
  CASE name = "be_u8" -> be_u8(i)
    [] name = "be_u24" -> be_u24(i)
    [] name = "be_i24" -> be_i24(i)
    [] name = "packet_type" -> packet_type(i)
    [] name = "be_u32" -> be_u32(i)
    [] name = "tag_FLV" -> tag(FLV, i)
    [] name = "tag_type" -> tag_type(i)

RECURSIVE tuple(_, _, _)
\* the parsers `names` from i on, acc the values read so far
tuple(names, i, acc) ==
  IF names = <<>> THEN Ok(i, acc)
  ELSE LET r == Parse(Head(names), i)
       IN  IF ~IsOk(r) THEN r
           ELSE tuple(Tail(names), r.rest, Append(acc, r.v))

\* nom::combinator::map / Result::map: f on the value of a Complete outcome
Map(r, f(_)) == IF IsOk(r) THEN Ok(r.rest, f(r.v)) ELSE r

(***************************************************************************)
(* Header                                                                  *)
(***************************************************************************)
\* flags & mask == mask, for a one-bit mask
BitAnd(flags, mask) == (flags \div mask) % 2 = 1

\* HeaderOf with the audio flag read from bit 1
HeaderOf_AudioBit1(f) ==
  [version |-> f[2], audio |-> BitAnd(f[3], 2), video |-> BitAnd(f[3], 1), offset |-> f[4]]

\* the closure of header's .map: the Header of (_, version, flags, offset)
HeaderOf(f) ==
  [version |-> f[2], audio |-> BitAnd(f[3], 4), video |-> BitAnd(f[3], 1), offset |-> f[4]]

\* tuple((tag("FLV"), be_u8, be_u8, be_u32))(input).map(..)
header(input) == Map(tuple(<<"tag_FLV", "be_u8", "be_u8", "be_u32">>, input, <<>>), HeaderOf)

(***************************************************************************)
(* Tag header                                                              *)
(***************************************************************************)
\* Timestamp with the extension shifted by 16 bits only
Timestamp_Shift16(timestamp_extended, timestamp) ==
  LET lo == timestamp % 65536
      hi == timestamp_extended + (timestamp \div 65536)
  IN  [value |-> <<hi % 65536, lo>>, overflow |-> hi >= 65536]

\* (u32::from(timestamp_extended) << 24) + timestamp, in 16-bit limbs.  The
\* shift drops what leaves the 32 bits; the addition carries from the low limb
\* into the high one, and a carry out of the high limb is a u32 overflow.
Timestamp(timestamp_extended, timestamp) ==
  LET shifted == <<(timestamp_extended * 256) % 65536, 0>>
      lo == shifted[2] + (timestamp % 65536)
      hi == shifted[1] + (timestamp \div 65536) + (lo \div 65536)
  IN  [value |-> <<hi % 65536, lo % 65536>>, overflow |-> hi >= 65536]

\* the TagHeader literal of tag_header and of complete_tag
TagHeader(type, data_size, timestamp, timestamp_extended, stream_id) ==
  [tag_type |-> type,
   data_size |-> data_size,
   timestamp |-> Timestamp(timestamp_extended, timestamp).value,
   stream_id |-> stream_id]

\* an overflowing u32 addition panics in a debug build and wraps in a release
\* build: the outcome of a decoder whose timestamp addition overflows
Overflow == [k |-> "Overflow"]

\* the value a decoder yields from the timestamp fields and the rest
Checked(r, timestamp_extended, timestamp) ==
  IF IsOk(r) /\ Timestamp(timestamp_extended, timestamp).overflow THEN Overflow ELSE r

\* the closure of tag_header's .map
TagHeaderOf(f) == TagHeader(f[1], f[2], f[3], f[4], f[5])

\* tuple((tag_type, be_u24, be_u24, be_u8, be_u24))(input).map(..)
tag_header(input) ==
  LET r == tuple(<<"tag_type", "be_u24", "be_u24", "be_u8", "be_u24">>, input, <<>>)
  IN  IF ~IsOk(r) THEN r ELSE Checked(Map(r, TagHeaderOf), r.v[4], r.v[3])

(***************************************************************************)
(* nom::bits: bit-level reads, most significant bit first.  A bit input is *)
(* <<bytes, bit offset into the first byte>>.                               *)
(***************************************************************************)
RECURSIVE take_loop(_, _, _, _, _)
\* the loop of nom::bits::streaming::take over the bytes it may touch:
\* <<accumulated value, end offset>>
take_loop(bytes, j, offset, remaining, acc) ==
  IF j > Len(bytes) \/ remaining = 0 THEN <<acc, 0>>
  ELSE LET val == bytes[j] % (2 ^ (8 - offset))
       IN  IF remaining < 8 - offset
           THEN <<acc + val \div (2 ^ (8 - offset - remaining)), remaining + offset>>
           ELSE take_loop(bytes, j + 1, 0, remaining - (8 - offset),
                          acc + val * (2 ^ (remaining - (8 - offset))))

\* nom::bits::streaming::take(count) on the bit input bi
take(count, bi) ==
  LET input == bi[1]
      bit_offset == bi[2]
      cnt == (count + bit_offset) \div 8
  IN  IF count = 0 THEN Ok(bi, 0)
      ELSE IF Len(input) * 8 < count + bit_offset THEN Incomplete(count)
      ELSE LET got == take_loop(IterTake(input, cnt + 1), 1, bit_offset, count, 0)
           IN  Ok(<<Drop(input, cnt), got[2]>>, got[1])

\* nom::bits::bits around a bit parser's outcome r: back to whole bytes
bits(r) ==
  IF IsOk(r)
  THEN LET offset == r.rest[2]
           remaining_bytes_index == offset \div 8 + (IF offset % 8 = 0 THEN 0 ELSE 1)
       IN  Ok(Drop(r.rest[1], remaining_bytes_index), r.v)
  ELSE IF IsIncomplete(r) THEN Incomplete(r.needed \div 8 + 1)
  ELSE r

RECURSIVE take_tuple(_, _, _)
\* tuple / pair of take(c) for the counts c, on the bit input bi
take_tuple(counts, bi, acc) ==
  IF counts = <<>> THEN Ok(bi, acc)
  ELSE LET r == take(Head(counts), bi)
       IN  IF ~IsOk(r) THEN r
           ELSE take_tuple(Tail(counts), r.rest, Append(acc, r.v))

\* tuple((take(4usize), take(2usize), take(1usize), take(1usize)))
take_bits_audio(bi) == take_tuple(<<4, 2, 1, 1>>, bi, <<>>)

\* pair(take(4usize), take(4usize))
take_bits_video(bi) == take_tuple(<<4, 4>>, bi, <<>>)

(***************************************************************************)
(* Audio payload                                                           *)
(***************************************************************************)
\* the match arms of audio_data; "" is the arm `_ => return Err(..)`
SoundFormat(c) ==
  CASE c = 0 -> "PCM_NE"
    [] c = 1 -> "ADPCM"
    [] c = 2 -> "MP3"
    [] c = 3 -> "PCM_LE"
    [] c = 4 -> "NELLYMOSER_16KHZ_MONO"
    [] c = 5 -> "NELLYMOSER_8KHZ_MONO"
    [] c = 6 -> "NELLYMOSER"
    [] c = 7 -> "PCM_ALAW"
    [] c = 8 -> "PCM_ULAW"
    [] c = 10 -> "AAC"
    [] c = 11 -> "SPEEX"
    [] c = 14 -> "MP3_8KHZ"
    [] c = 15 -> "DEVICE_SPECIFIC"
    [] OTHER -> ""

SoundRate(c) ==
  CASE c = 0 -> "_5_5KHZ"
    [] c = 1 -> "_11KHZ"
    [] c = 2 -> "_22KHZ"
    [] c = 3 -> "_44KHZ"
    [] OTHER -> ""

SoundSize(c) ==
  CASE c = 0 -> "Snd8bit"
    [] c = 1 -> "Snd16bit"
    [] OTHER -> ""

SoundType(c) ==
  CASE c = 0 -> "SndMono"
    [] c = 1 -> "SndStereo"
    [] OTHER -> ""

\* the first guard of audio_data and video_data
ShortOfSize(input, sz) == Len(input) < sz

\* the outcome of audio_data and video_data for a size below 1
SizeBelowOne == Incomplete(1)

\* AudioOf with the format byte left in sound_data
AudioOf_KeepsFormatByte(c, input, sz) ==
  IF SoundFormat(c[1]) = "" THEN Error("Alt")
  ELSE Ok(Drop(input, sz),
          [sound_format |-> SoundFormat(c[1]),
           sound_rate |-> SoundRate(c[2]),
           sound_size |-> SoundSize(c[3]),
           sound_type |-> SoundType(c[4]),
           sound_data |-> Slice(input, 0, sz)])

\* the closure of audio_data's .and_then on (sformat, srate, ssize, stype)
AudioOf(c, input, sz) ==
  IF SoundFormat(c[1]) = "" THEN Error("Alt")
  ELSE IF SoundRate(c[2]) = "" THEN Error("Alt")
  ELSE IF SoundSize(c[3]) = "" THEN Error("Alt")
  ELSE IF SoundType(c[4]) = "" THEN Error("Alt")
  ELSE Ok(Drop(input, sz),
          [sound_format |-> SoundFormat(c[1]),
           sound_rate |-> SoundRate(c[2]),
           sound_size |-> SoundSize(c[3]),
           sound_type |-> SoundType(c[4]),
           sound_data |-> Slice(input, 1, sz)])

\* Result::and_then on the outcome r of the bit parser
AndThenAudio(r, input, sz) == IF IsOk(r) THEN AudioOf(r.v, input, sz) ELSE r

audio_data(input, sz) ==
  IF ShortOfSize(input, sz) THEN Incomplete(sz)
  ELSE IF sz < 1 THEN SizeBelowOne
  ELSE AndThenAudio(bits(take_bits_audio(<<input, 0>>)), input, sz)

\* the closure of aac_audio_packet's .and_then on the packet type byte
AacOf(packet_type_byte, input, sz) ==
  IF packet_type_byte = 0
    THEN Ok(Drop(input, sz),
            [packet_type |-> "SequenceHeader", aac_data |-> Slice(input, 1, sz)])
  ELSE IF packet_type_byte = 1
    THEN Ok(Drop(input, sz), [packet_type |-> "Raw", aac_data |-> Slice(input, 1, sz)])
  ELSE Error("Alt")

AndThenAac(r, input, sz) == IF IsOk(r) THEN AacOf(r.v, input, sz) ELSE r

aac_audio_packet(input, sz) ==
  IF ShortOfSize(input, sz) THEN Incomplete(sz)
  ELSE IF sz < 1 THEN SizeBelowOne
  ELSE AndThenAac(be_u8(input), input, sz)

(***************************************************************************)
(* Video payload                                                           *)
(***************************************************************************)
FrameType(c) ==
  CASE c = 1 -> "Key"
    [] c = 2 -> "Inter"
    [] c = 3 -> "DisposableInter"
    [] c = 4 -> "Generated"
    [] c = 5 -> "Command"
    [] OTHER -> ""

\* CodecId without the two codes that are not in the FLV standard
CodecId_StandardOnly(c) ==
  CASE c = 1 -> "JPEG"
    [] c = 2 -> "SORENSON_H263"
    [] c = 3 -> "SCREEN"
    [] c = 4 -> "VP6"
    [] c = 5 -> "VP6A"
    [] c = 6 -> "SCREEN2"
    [] c = 7 -> "H264"
    [] OTHER -> ""

CodecId(c) ==
  CASE c = 1 -> "JPEG"
    [] c = 2 -> "SORENSON_H263"
    [] c = 3 -> "SCREEN"
    [] c = 4 -> "VP6"
    [] c = 5 -> "VP6A"
    [] c = 6 -> "SCREEN2"
    [] c = 7 -> "H264"
    [] c = 8 -> "H263"
    [] c = 9 -> "MPEG4Part2"
    [] OTHER -> ""

\* the closure of video_data's .and_then on (frame_type, codec_id)
VideoOf(c, input, sz) ==
  IF FrameType(c[1]) = "" THEN Error("Alt")
  ELSE IF CodecId(c[2]) = "" THEN Error("Alt")
  ELSE Ok(Drop(input, sz),
          [frame_type |-> FrameType(c[1]),
           codec_id |-> CodecId(c[2]),
           video_data |-> Slice(input, 1, sz)])

AndThenVideo(r, input, sz) == IF IsOk(r) THEN VideoOf(r.v, input, sz) ELSE r

video_data(input, sz) ==
  IF ShortOfSize(input, sz) THEN Incomplete(sz)
  ELSE IF sz < 1 THEN SizeBelowOne
  ELSE AndThenVideo(bits(take_bits_video(<<input, 0>>)), input, sz)

\* the outcome of avc_video_packet for a size below 4
SizeBelowFour == Incomplete(4)

\* the closure of avc_video_packet's .map on (packet_type, composition_time)
AvcOf(c, input, sz) ==
  [packet_type |-> c[1], composition_time |-> c[2], avc_data |-> Slice(input, 4, sz)]

MapAvc(r, input, sz) == IF IsOk(r) THEN Ok(Drop(input, sz), AvcOf(r.v, input, sz)) ELSE r

avc_video_packet(input, sz) ==
  IF ShortOfSize(input, sz) THEN Incomplete(sz)
  ELSE IF sz < 4 THEN SizeBelowFour
  ELSE MapAvc(tuple(<<"packet_type", "be_i24">>, input, <<>>), input, sz)

(***************************************************************************)
(* Tag assembler                                                           *)
(***************************************************************************)
\* what the Script arm of tag_data leaves unconsumed: Ok((input, ..))
ScriptRest(input, sz) == input

TagDataVideo(v) == [kind |-> "Video", video |-> v]

TagDataAudio(v) == [kind |-> "Audio", audio |-> v]

TagDataScript == [kind |-> "Script"]

tag_data(type, sz, input) ==
  CASE type = "Video" -> Map(video_data(input, sz), TagDataVideo)
    [] type = "Audio" -> Map(audio_data(input, sz), TagDataAudio)
    [] type = "Script" -> Ok(ScriptRest(input, sz), TagDataScript)

\* the inner tuple((be_u24, be_u8, be_u24, tag_data(tag_type, data_size)))(i)
\* and its .map, h the (tag_type, data_size) read before
TagBody(h, i) ==
  LET t == tuple(<<"be_u24", "be_u8", "be_u24">>, i, <<>>)
  IN  IF ~IsOk(t) THEN t
      ELSE LET d == tag_data(h[1], h[2], t.rest)
           IN  IF ~IsOk(d) THEN d
               ELSE Checked(Ok(d.rest,
                               [header |-> TagHeader(h[1], h[2], t.v[1], t.v[2], t.v[3]),
                                data |-> d.v]),
                            t.v[2], t.v[1])

\* pair(tag_type, be_u24)(input).and_then(..)
complete_tag(input) ==
  LET r == tuple(<<"tag_type", "be_u24">>, input, <<>>)
  IN  IF ~IsOk(r) THEN r ELSE TagBody(r.v, r.rest)

(***************************************************************************)
(* Metadata (script) values                                                *)
(***************************************************************************)
\* a continuation byte of UTF-8
Cont(b) == b >= 128 /\ b <= 191

RECURSIVE Utf8Valid(_, _)
\* core::str::from_utf8 accepts the bytes of s from position j on
Utf8Valid(s, j) ==
  IF j > Len(s) THEN TRUE
  ELSE LET b == s[j]
           has(n) == j + n <= Len(s)
       IN  IF b < 128 THEN Utf8Valid(s, j + 1)
           ELSE IF b >= 194 /\ b <= 223
           THEN has(1) /\ Cont(s[j + 1]) /\ Utf8Valid(s, j + 2)
           ELSE IF b >= 224 /\ b <= 239
           THEN /\ has(2)
                /\ IF b = 224 THEN s[j + 1] >= 160 /\ s[j + 1] <= 191
                   ELSE IF b = 237 THEN s[j + 1] >= 128 /\ s[j + 1] <= 159
                   ELSE Cont(s[j + 1])
                /\ Cont(s[j + 2])
                /\ Utf8Valid(s, j + 3)
           ELSE IF b >= 240 /\ b <= 244
           THEN /\ has(3)
                /\ IF b = 240 THEN s[j + 1] >= 144 /\ s[j + 1] <= 191
                   ELSE IF b = 244 THEN s[j + 1] >= 128 /\ s[j + 1] <= 143
                   ELSE Cont(s[j + 1])
                /\ Cont(s[j + 2])
                /\ Cont(s[j + 3])
                /\ Utf8Valid(s, j + 4)
           ELSE FALSE

\* std::str::from_utf8: the &str is the same bytes, when they are UTF-8
from_utf8(s) == Utf8Valid(s, 1)

\* length_data over the complete (not streaming) take: short input is an Error
length_data_Complete(r, length) ==
  IF length > Len(r.rest) THEN Error("Eof")
  ELSE Ok(Drop(r.rest, length), Take(r.rest, length))

\* nom::multi::length_data on the outcome r of its length parser, the length
\* already a usize: Incomplete by what is missing, else the split
length_data(r, length) ==
  IF length > Len(r.rest) THEN Incomplete(length - Len(r.rest))
  ELSE Ok(Drop(r.rest, length), Take(r.rest, length))

\* map_res(.., from_utf8) on the outcome r of length_data
map_res_utf8(r) ==
  IF ~IsOk(r) THEN r
  ELSE IF from_utf8(r.v) THEN r
  ELSE Error("MapRes")

script_data_string(input) ==
  LET r == be_u16(input)
  IN  IF ~IsOk(r) THEN r
      ELSE map_res_utf8(length_data(r, r.v))

script_data_long_string(input) ==
  LET r == be_u32(input)
  IN  IF ~IsOk(r) THEN r
      ELSE map_res_utf8(length_data(r, U32ToNat(r.v)))

script_data_date(input) ==
  LET r1 == be_f64(input)
  IN  IF ~IsOk(r1) THEN r1
      ELSE LET r2 == be_i16(r1.rest)
           IN  IF ~IsOk(r2) THEN r2
               ELSE Ok(r2.rest, [date_time |-> r1.v, local_date_time_offset |-> r2.v])

\* static script_data_object_end_terminator: &[u8] = &[0, 0, 9]
script_data_object_end_terminator == <<0, 0, 9>>

script_data_object_end(input) == tag(script_data_object_end_terminator, input)

\* static script_data_name_tag: &[u8] = &[2]
script_data_name_tag == <<2>>

\* max as a u32 in limbs: count < max
BelowMax(count, max) == max[1] > 0 \/ count < max[2]

\* many_m_n's first test, min > max
MinAboveMax(min, max) == max[1] = 0 /\ min > max[2]

\* the outcome of many_m_n when min > max
ManyMNBadRange == Failure("ManyMN")

\* what many_m_n does when an element fails with Err::Error after `count`
\* elements: an Error below min, else the elements read so far
ManyMNOnError(min, count, input, res) ==
  IF count < min THEN Error("ManyMN") ELSE Ok(input, res)

RECURSIVE script_data_value(_)
RECURSIVE script_data_objects(_)
RECURSIVE script_data_object(_)
RECURSIVE script_data_ecma_array(_)
RECURSIVE script_data_strict_array(_)
RECURSIVE many0(_, _)
RECURSIVE Many0Step(_, _, _)
RECURSIVE many_m_n(_, _, _, _, _)

\* nom::multi::many0(script_data_object): the loop, acc the pairs read so far
many0(i, acc) == Many0Step(i, acc, script_data_object(i))

\* the match of many0's loop body on the outcome r of the element parser
Many0Step(i, acc, r) ==
  IF r.k = "Error" THEN Ok(i, acc)
  ELSE IF ~IsOk(r) THEN r
  ELSE IF Len(r.rest) = Len(i) THEN Error("Many0")
  ELSE many0(r.rest, Append(acc, r.v))

RECURSIVE ManyMNStep(_, _, _, _, _, _)
\* nom::multi::many_m_n(min, max, script_data_value): the loop at `count`
many_m_n(min, max, count, input, res) ==
  IF ~BelowMax(count, max) THEN Ok(input, res)
  ELSE ManyMNStep(min, max, count, input, res, script_data_value(input))

\* the match of many_m_n's loop body on the outcome r of the element parser
ManyMNStep(min, max, count, input, res, r) ==
  IF IsOk(r)
  THEN IF Len(r.rest) = Len(input) THEN Error("ManyMN")
       ELSE many_m_n(min, max, count + 1, r.rest, Append(res, r.v))
  ELSE IF r.k = "Error" THEN ManyMNOnError(min, count, input, res)
  ELSE r

\* terminated(.., script_data_object_end) on the outcome r of many0: the
\* objects are kept, the terminator is dropped
Terminated(r) ==
  IF ~IsOk(r) THEN r
  ELSE LET e == script_data_object_end(r.rest)
       IN  IF ~IsOk(e) THEN e ELSE Ok(e.rest, r.v)

script_data_objects(input) == Terminated(many0(input, <<>>))

\* the ScriptDataObject literal, on the name and the outcome r2 of its value
PairOf(name, r2) ==
  IF ~IsOk(r2) THEN r2 ELSE Ok(r2.rest, [name |-> name, data |-> r2.v])

\* the value of a pair, on the outcome r1 of its name
PairValue(r1) == IF ~IsOk(r1) THEN r1 ELSE PairOf(r1.v, script_data_value(r1.rest))

script_data_object(input) == PairValue(script_data_string(input))

script_data_ecma_array(input) ==
  LET r1 == be_u32(input)
  IN  IF ~IsOk(r1) THEN r1
      ELSE script_data_objects(r1.rest)

\* flat_map(be_u32, |o| many_m_n(1, o as usize, script_data_value)): many_m_n
\* tests its range, then loops from count 0
script_data_strict_array(input) ==
  LET r == be_u32(input)
  IN  IF ~IsOk(r) THEN r
      ELSE IF MinAboveMax(1, r.v) THEN ManyMNBadRange
      ELSE many_m_n(1, r.v, 0, r.rest, <<>>)

Number(x) == [t |-> "Number", bits |-> x]

Boolean(x) == [t |-> "Boolean", b |-> x]

String(x) == [t |-> "String", s |-> x]

Object(x) == [t |-> "Object", props |-> x]

MovieClip(x) == [t |-> "MovieClip", s |-> x]

Null == [t |-> "Null"]

Undefined == [t |-> "Undefined"]

Reference(x) == [t |-> "Reference", ref |-> x]

ECMAArray(x) == [t |-> "ECMAArray", props |-> x]

StrictArray(x) == [t |-> "StrictArray", items |-> x]

Date(x) == [t |-> "Date", date |-> x]

LongString(x) == [t |-> "LongString", s |-> x]

\* |n| ScriptDataValue::Boolean(n != 0)
BooleanOf(n) == Boolean(n # 0)

script_data_value(input) ==
  LET v == be_u8(input)
  IN  IF ~IsOk(v) THEN v
      ELSE LET i == v.rest
           IN  CASE v.v = 0 -> Map(be_f64(i), Number)
                 [] v.v = 1 -> Map(be_u8(i), BooleanOf)
                 [] v.v = 2 -> Map(script_data_string(i), String)
                 [] v.v = 3 -> Map(script_data_objects(i), Object)
                 [] v.v = 4 -> Map(script_data_string(i), MovieClip)
                 [] v.v = 5 -> Ok(i, Null)
                 [] v.v = 6 -> Ok(i, Undefined)
                 [] v.v = 7 -> Map(be_u16(i), Reference)
                 [] v.v = 8 -> Map(script_data_ecma_array(i), ECMAArray)
                 [] v.v = 10 -> Map(script_data_strict_array(i), StrictArray)
                 [] v.v = 11 -> Map(script_data_date(i), Date)
                 [] v.v = 12 -> Map(script_data_long_string(i), LongString)
                 [] OTHER -> Error("Alt")

script_data(input) ==
  LET r1 == tag(script_data_name_tag, input)
  IN  IF ~IsOk(r1) THEN r1
      ELSE LET r2 == script_data_string(r1.rest)
           IN  IF ~IsOk(r2) THEN r2
               ELSE LET r3 == script_data_value(r2.rest)
                    IN  IF ~IsOk(r3) THEN r3
                        ELSE Ok(r3.rest, [name |-> r2.v, arguments |-> r3.v])

(***************************************************************************)
(* The streams the producer may hold.  A message is what the producer      *)
(* wrote; Encode is its bytes.  The sets are built so that every code of   *)
(* every discriminant, every truncation and trailing bytes occur.          *)
(***************************************************************************)
EncU16(n) == <<n \div 256, n % 256>>

EncU24(n) == <<n \div 65536, (n \div 256) % 256, n % 256>>

EncU32(n) == <<0>> \o EncU24(n)

EncLimbs(x) == <<x[1] \div 256, x[1] % 256, x[2] \div 256, x[2] % 256,
                 x[3] \div 256, x[3] % 256, x[4] \div 256, x[4] % 256>>

EncString(str) == EncU16(Len(str)) \o str

RECURSIVE EncValue(_)
RECURSIVE EncPairs(_)
RECURSIVE EncItems(_)

\* the wire form of a metadata value
EncValue(v) ==
  CASE v.t = "Number" -> <<0>> \o EncLimbs(v.bits)
    [] v.t = "Boolean" -> <<1, IF v.b THEN 1 ELSE 0>>
    [] v.t = "String" -> <<2>> \o EncString(v.s)
    [] v.t = "Object" -> <<3>> \o EncPairs(v.props) \o script_data_object_end_terminator
    [] v.t = "MovieClip" -> <<4>> \o EncString(v.s)
    [] v.t = "Null" -> <<5>>
    [] v.t = "Undefined" -> <<6>>
    [] v.t = "Reference" -> <<7>> \o EncU16(v.ref)
    [] v.t = "ECMAArray" -> <<8>> \o EncU32(Len(v.props)) \o EncPairs(v.props)
                                \o script_data_object_end_terminator
    [] v.t = "StrictArray" -> <<10>> \o EncU32(Len(v.items)) \o EncItems(v.items)
    [] v.t = "Date" -> <<11>> \o EncLimbs(v.date.date_time)
                           \o EncU16((v.date.local_date_time_offset + 65536) % 65536)
    [] v.t = "LongString" -> <<12>> \o EncU32(Len(v.s)) \o v.s

EncPairs(ps) ==
  IF ps = <<>> THEN <<>>
  ELSE EncString(ps[1].name) \o EncValue(ps[1].data) \o EncPairs(Tail(ps))

EncItems(vs) ==
  IF vs = <<>> THEN <<>> ELSE EncValue(vs[1]) \o EncItems(Tail(vs))

Pair(n, d) == [name |-> n, data |-> d]

\* the values without children
Leaves ==
  { Number(<<16392, 0, 0, 1>>), Boolean(TRUE), Boolean(FALSE),
    String(<<>>), String(<<97>>), String(<<195, 169>>), MovieClip(<<97>>),
    Null, Undefined, Reference(258),
    Date([date_time |-> <<17000, 1, 2, 3>>, local_date_time_offset |-> -60]),
    LongString(<<97, 98>>) }

\* the children a generated container holds at depth 0
Nest0 == {Null, String(<<97>>)}

RECURSIVE Nest(_)
\* the values nested to depth d at most
Nest(d) ==
  IF d = 0 THEN Nest0
  ELSE Nest0 \cup {Object(<<>>), ECMAArray(<<>>), StrictArray(<<>>)}
       \cup UNION { { Object(<<Pair(<<97>>, x)>>), ECMAArray(<<Pair(<<97>>, x)>>),
                      StrictArray(<<x>>), StrictArray(<<x, Null>>) } : x \in Nest(d - 1) }

Values == Leaves \cup Nest(MaxDepth)

\* the pairs that follow the first pair of a generated list
TailPairs == {Pair(<<>>, Null), Pair(<<98>>, Boolean(TRUE))}

RECURSIVE TailLists(_)
TailLists(n) ==
  IF n = 0 THEN {<<>>}
  ELSE TailLists(n - 1)
       \cup {<<p>> \o l : p \in TailPairs, l \in {m \in TailLists(n - 1) : Len(m) = n - 1}}

PairLists ==
  {<<>>} \cup {<<Pair(<<97>>, v)>> \o l : v \in Values, l \in TailLists(MaxPairs - 1)}

Trailers == {<<>>, <<7>>}

\* file headers: right and wrong signatures, every flag bit, extreme offsets
HeaderStreams ==
  { sig \o vo[1] \o <<fl>> \o vo[2] \o tr :
      sig \in {FLV, <<70, 76, 88>>, <<70, 88, 86>>, <<88, 76, 86>>, <<102, 108, 118>>},
      vo \in {<< <<1>>, <<0, 0, 0, 9>> >>, << <<255>>, <<255, 255, 255, 255>> >>,
              << <<2>>, <<1, 2, 3, 4>> >>},
      fl \in (0..7) \cup {250, 255},
      tr \in Trailers }

\* payload bytes of a generated tag: a first byte and a run of 9s
RECURSIVE Nines(_)
Nines(n) == IF n = 0 THEN <<>> ELSE <<9>> \o Nines(n - 1)

TagPayloads ==
  {<<>>} \cup {<<b>> \o Nines(n) : b \in {18, 0, 144}, n \in 0..MaxData}

\* tags: the three types and an unknown one, data sizes 0..MaxData and a
\* large one, extreme timestamps
TagStreams ==
  { <<ty>> \o EncU24(ds) \o ts \o pl :
      ty \in {8, 9, 18, 10},
      ds \in (0..MaxData) \cup {66051},
      ts \in {<<0, 0, 0, 0, 0, 0, 0>>, <<255, 255, 255, 255, 0, 0, 1>>,
              <<1, 2, 3, 4, 5, 6, 7>>},
      pl \in TagPayloads }

\* audio / video payloads: every first byte, then a few bytes
PayloadStreams ==
  { <<b>> \o Take(<<7, 9, 11, 13, 15, 17, 19, 21>>, n) : b \in 0..255, n \in 0..(MaxSize - 1) }

\* AVC packets: every packet type and an unknown one, composition times of
\* both signs, 0..MaxData bytes of data
AvcStreams ==
  { <<b>> \o ct \o Nines(n) :
      b \in {0, 1, 2, 3, 255},
      ct \in {<<0, 0, 0>>, <<0, 1, 2>>, <<255, 255, 254>>},
      n \in 0..MaxData }

\* metadata that is not well formed
RawScriptStreams ==
  { <<2, 0, 1, 255>>, <<2, 0, 2, 195, 40>>, <<2, 0, 1, 97, 2, 0, 1, 200>>,
    <<3, 0, 1, 97, 13, 0, 0, 9>>, <<3, 0, 1, 97, 5, 0, 0, 8>>,
    <<10, 0, 0, 0, 2, 5, 13>>, <<10, 0, 0, 0, 1, 13>>,
    <<12, 0, 0, 0, 1, 200>>, <<0, 1, 97, 10, 0, 0, 0, 2, 5, 13, 0, 0, 9>> }

\* strict array bodies that are not well formed: an unknown marker 13 as the
\* first or a later element, fewer elements than declared, a count of 2^32 - 1
RawArrayStreams ==
  { <<0, 0, 0, 1, 13>>, <<0, 0, 0, 2, 5, 13>>, <<0, 0, 0, 2, 5, 13, 7>>,
    <<0, 0, 0, 3, 5, 6, 13, 5>>, <<0, 0, 0, 3, 5, 6>>, <<0, 0, 0, 2, 2, 0, 1, 255, 5>>,
    <<255, 255, 255, 255, 5, 6>>, <<255, 255, 255, 255, 5, 13>> }

RECURSIVE DeepArray(_)
\* a Null inside k strict arrays of one element each
DeepArray(k) == IF k = 0 THEN <<5>> ELSE <<10, 0, 0, 0, 1>> \o DeepArray(k - 1)

RECURSIVE DeepObject(_)
\* a Null inside k objects of one property "a" each
DeepObject(k) ==
  IF k = 0 THEN <<5>>
  ELSE <<3, 0, 1, 97>> \o DeepObject(k - 1) \o script_data_object_end_terminator

\* values nested one level deeper than Values
DeepStreams == {DeepArray(MaxDepth + 1), DeepObject(MaxDepth + 1)}

\* the element lists of the generated strict arrays
ItemLists == {v.items : v \in {w \in Values : w.t = "StrictArray"}}

Messages ==
  {[kind |-> "bytes", bytes |-> b] :
      b \in HeaderStreams \cup TagStreams \cup PayloadStreams \cup AvcStreams
             \cup RawScriptStreams \cup RawArrayStreams \cup DeepStreams}
  \cup {[kind |-> "array", items |-> vs, trailer |-> tr] :
          vs \in ItemLists, tr \in Trailers}
  \cup {[kind |-> "objects", pairs |-> ps, trailer |-> tr] :
          ps \in PairLists, tr \in Trailers}
  \cup {[kind |-> "value", value |-> v, trailer |-> tr] : v \in Values, tr \in Trailers}
  \cup {[kind |-> "script", name |-> <<109>>, value |-> v, trailer |-> tr] :
          v \in Values, tr \in Trailers}

Encode(m) ==
  CASE m.kind = "bytes" -> m.bytes
    [] m.kind = "objects" ->
         EncPairs(m.pairs) \o script_data_object_end_terminator \o m.trailer
    [] m.kind = "array" -> EncU32(Len(m.items)) \o EncItems(m.items) \o m.trailer
    [] m.kind = "value" -> EncValue(m.value) \o m.trailer
    [] m.kind = "script" ->
         script_data_name_tag \o EncString(m.name) \o EncValue(m.value) \o m.trailer

(***************************************************************************)
(* The streaming caller                                                    *)
(***************************************************************************)
NoResult == [k |-> "None"]

\* the bytes the caller holds
Buffer == Take(stream, avail)

Init ==
  /\ sent \in Messages
  /\ stream = Encode(sent)
  /\ avail = 0
  /\ call = "none"
  /\ size = 0
  /\ result = NoResult

\* one more byte of the stream arrives; the caller will decode again
Feed ==
  /\ avail < Len(stream)
  /\ avail' = avail + 1
  /\ call' = "none"
  /\ size' = 0
  /\ result' = NoResult
  /\ UNCHANGED <<sent, stream>>

\* the caller decodes the buffer it holds once, then waits for more bytes
Decoded(name, sz, r) ==
  /\ call = "none"
  /\ call' = name
  /\ size' = sz
  /\ result' = r
  /\ UNCHANGED <<sent, stream, avail>>

CallHeader == Decoded("header", 0, header(Buffer))

CallTagHeader == Decoded("tag_header", 0, tag_header(Buffer))

CallCompleteTag == Decoded("complete_tag", 0, complete_tag(Buffer))

CallAudioData == \E sz \in 0..MaxSize : Decoded("audio_data", sz, audio_data(Buffer, sz))

CallVideoData == \E sz \in 0..MaxSize : Decoded("video_data", sz, video_data(Buffer, sz))

CallAacAudioPacket ==
  \E sz \in 0..MaxSize : Decoded("aac_audio_packet", sz, aac_audio_packet(Buffer, sz))

\* sizes up to the 4 header bytes and the longest generated data
CallAvcVideoPacket ==
  \E sz \in 0..(4 + MaxData) : Decoded("avc_video_packet", sz, avc_video_packet(Buffer, sz))

CallScriptData == Decoded("script_data", 0, script_data(Buffer))

CallScriptDataValue == Decoded("script_data_value", 0, script_data_value(Buffer))

CallScriptDataObjects == Decoded("script_data_objects", 0, script_data_objects(Buffer))

CallScriptDataStrictArray ==
  Decoded("script_data_strict_array", 0, script_data_strict_array(Buffer))

Next ==
  \/ Feed
  \/ CallHeader
  \/ CallTagHeader
  \/ CallCompleteTag
  \/ CallAudioData
  \/ CallVideoData
  \/ CallAacAudioPacket
  \/ CallAvcVideoPacket
  \/ CallScriptData
  \/ CallScriptDataValue
  \/ CallScriptDataObjects
  \/ CallScriptDataStrictArray

Spec == Init /\ [][Next]_vars

(***************************************************************************)
(* Properties                                                              *)
(***************************************************************************)
\* the big-endian 24-bit field of b that starts after its first n bytes
Field24(b, n) == (b[n + 1] * 256 + b[n + 2]) * 256 + b[n + 3]

TypeCodes == {8, 9, 18}

TypeName(c) == IF c = 8 THEN "Audio" ELSE IF c = 9 THEN "Video" ELSE "Script"

ValidSoundFormats == (0..8) \cup {10, 11, 14, 15}

ValidFrameTypes == 1..5

ValidCodecIds == 1..9

\* s starts with a valid tag: a known type, all 11 + data_size bytes, and for
\* audio and video a payload of at least the format byte, with known codes
ValidTag(s) ==
  /\ Len(s) >= 11
  /\ s[1] \in TypeCodes
  /\ Len(s) >= 11 + Field24(s, 1)
  /\ s[1] = 8 => Field24(s, 1) >= 1 /\ s[12] \div 16 \in ValidSoundFormats
  /\ s[1] = 9 => /\ Field24(s, 1) >= 1
                 /\ s[12] \div 16 \in ValidFrameTypes
                 /\ s[12] % 16 \in ValidCodecIds

\* the byte count of the tag s starts with
Required(s) == 11 + Field24(s, 1)

\* C1: whenever complete_tag returns Complete, for a tag of any type, it has
\* consumed exactly 11 + data_size bytes: the remainder is the input without
\* its first 11 + data_size bytes.
C1_CompleteTagConsumesHeaderAndPayload ==
  (call = "complete_tag" /\ IsOk(result)) =>
    /\ Len(Buffer) >= 11 + result.v.header.data_size
    /\ result.rest = Drop(Buffer, 11 + result.v.header.data_size)

\* C2: on the first N < required bytes of a valid tag complete_tag returns
\* Incomplete with needed count exactly required - N, and on the required
\* bytes it returns Complete with nothing left.
C2_TruncatedTagNeedsTheMissingBytes ==
  (call = "complete_tag" /\ ValidTag(stream)) =>
    /\ avail < Required(stream) => result = Incomplete(Required(stream) - avail)
    /\ avail = Required(stream) => IsOk(result) /\ result.rest = <<>>

\* C3: audio_data and video_data called with size 0, and complete_tag on an
\* audio or video tag whose data_size field is 0, return a hard failure, never
\* Incomplete, whatever bytes follow.
C3_ZeroSizePayloadFails ==
  /\ (call \in {"audio_data", "video_data"} /\ size = 0) => IsFailure(result)
  /\ (call = "complete_tag" /\ avail >= 11 /\ Buffer[1] \in {8, 9}
        /\ Field24(Buffer, 1) = 0) => IsFailure(result)

\* C4: on at least 9 bytes header returns Complete exactly when the first 3
\* bytes are "FLV", with version = byte 3, audio = bit 2 of byte 4, video = bit
\* 0 of byte 4, offset = the big-endian u32 of bytes 5..8 and the remainder the
\* input after its first 9 bytes; with another signature it is a failure.
C4_HeaderOfNineBytes ==
  (call = "header" /\ avail >= 9) =>
    LET b == Buffer
    IN  IF <<b[1], b[2], b[3]>> = <<70, 76, 86>>
        THEN result = Ok(SubSeq(b, 10, Len(b)),
                         [version |-> b[4],
                          audio |-> b[5] % 8 >= 4,
                          video |-> b[5] % 2 = 1,
                          offset |-> <<b[6] * 256 + b[7], b[8] * 256 + b[9]>>])
        ELSE IsFailure(result)

C4_Witness ==
  /\ call = "header" /\ avail >= 10 /\ IsOk(result)
  /\ result.v.audio /\ ~result.v.video /\ result.v.offset = <<65535, 65535>>
  /\ result.rest # <<>>

\* the bytes of b that the signature covers are a prefix of "FLV"
SignaturePrefix(b) == \A j \in 1..Len(b) : j <= 3 => b[j] = FLV[j]

\* C5 as stated: on fewer than 9 bytes header returns Incomplete, also when
\* the bytes present do not match the signature.
C5_ShortHeaderIsIncomplete ==
  (call = "header" /\ avail < 9) => IsIncomplete(result)

\* C5 amended: on fewer than 9 bytes header never returns Complete; it returns
\* Incomplete when the bytes present agree with the signature, and a failure
\* when one of the signature bytes present differs from "FLV".
C5_ShortHeaderIncompleteOrMismatch ==
  (call = "header" /\ avail < 9) =>
    IF SignaturePrefix(Buffer) THEN IsIncomplete(result) ELSE IsFailure(result)

C5_Witness ==
  /\ call = "header" /\ avail = 2 /\ ~SignaturePrefix(Buffer) /\ IsFailure(result)

\* C6: on at least 11 bytes tag_header maps the type codes 8, 9, 18 to Audio,
\* Video, Script and fails on any other; data_size, the timestamp base and
\* stream_id are the big-endian 24-bit fields, timestamp is (ext << 24) + base
\* and the sum never overflows 32 bits; complete_tag builds the same header
\* from the same 11 bytes and fails on the same type codes.
C6_TagHeaderFields ==
  /\ (call = "tag_header" /\ avail >= 11) =>
       LET b == Buffer
       IN  IF b[1] \in TypeCodes
           THEN result = Ok(SubSeq(b, 12, Len(b)),
                            [tag_type |-> TypeName(b[1]),
                             data_size |-> Field24(b, 1),
                             timestamp |-> <<b[8] * 256 + b[5], b[6] * 256 + b[7]>>,
                             stream_id |-> Field24(b, 8)])
           ELSE IsFailure(result)
  /\ call \in {"tag_header", "complete_tag"} => result.k # "Overflow"
  /\ (call = "complete_tag" /\ IsOk(result)) =>
       /\ IsOk(tag_header(Take(Buffer, 11)))
       /\ result.v.header = tag_header(Take(Buffer, 11)).v
  /\ (call = "complete_tag" /\ avail >= 1 /\ Buffer[1] \notin TypeCodes) =>
       IsFailure(result)

C6_Witness ==
  /\ call = "tag_header" /\ IsOk(result)
  /\ result.v.timestamp = <<65535, 65535>> /\ result.v.data_size = 66051

\* C7: for 1 <= size <= len(input) audio_data reads byte 0 as format (bits
\* 7..4), rate (bits 3..2), sample size (bit 1), channel type (bit 0); for a
\* format code in 0..8, 10, 11, 14, 15 it returns Complete with sound_data =
\* input[1..size) and the remainder input[size..]; for 9, 12, 13 it fails.
C7_AudioData ==
  (call = "audio_data" /\ size >= 1 /\ size <= avail) =>
    LET b == Buffer
    IN  IF b[1] \div 16 \in ValidSoundFormats
        THEN /\ IsOk(result)
             /\ result.v.sound_format = SoundFormat(b[1] \div 16)
             /\ result.v.sound_rate = SoundRate((b[1] \div 4) % 4)
             /\ result.v.sound_size = SoundSize((b[1] \div 2) % 2)
             /\ result.v.sound_type = SoundType(b[1] % 2)
             /\ result.v.sound_data = SubSeq(b, 2, size)
             /\ Len(result.v.sound_data) = size - 1
             /\ result.rest = SubSeq(b, size + 1, Len(b))
        ELSE b[1] \div 16 \in {9, 12, 13} /\ IsFailure(result)

C7_Witness ==
  /\ call = "audio_data" /\ size = 2 /\ avail = 3 /\ IsOk(result)
  /\ result.v.sound_format = "AAC" /\ result.v.sound_rate = "_44KHZ"
  /\ result.v.sound_data = <<7>> /\ result.rest = <<9>>

\* C8: for 1 <= size <= len(input) video_data reads byte 0 as frame type (high
\* nibble) and codec id (low nibble); it returns Complete with video_data =
\* input[1..size) and the remainder input[size..] exactly when the frame type
\* is in 1..5 and the codec id in 1..9, and fails for every other nibble.
C8_VideoData ==
  (call = "video_data" /\ size >= 1 /\ size <= avail) =>
    LET b == Buffer
    IN  IF b[1] \div 16 \in ValidFrameTypes /\ b[1] % 16 \in ValidCodecIds
        THEN /\ IsOk(result)
             /\ result.v.frame_type = FrameType(b[1] \div 16)
             /\ result.v.codec_id = CodecId(b[1] % 16)
             /\ result.v.video_data = SubSeq(b, 2, size)
             /\ Len(result.v.video_data) = size - 1
             /\ result.rest = SubSeq(b, size + 1, Len(b))
        ELSE IsFailure(result)

C8_Witness ==
  /\ call = "video_data" /\ size = 2 /\ avail = 3 /\ IsOk(result)
  /\ result.v.frame_type = "Command" /\ result.v.codec_id = "MPEG4Part2"
  /\ result.v.video_data = <<7>> /\ result.rest = <<9>>

\* C9: on k >= 0 well-formed (name, value) pairs followed by 00 00 09
\* script_data_objects returns Complete with exactly those pairs in order and
\* the terminator consumed, and on every proper prefix of those bytes it
\* returns Incomplete.
C9_ObjectListTerminator ==
  (call = "script_data_objects" /\ sent.kind = "objects") =>
    LET enc == EncPairs(sent.pairs) \o script_data_object_end_terminator
    IN  IF avail >= Len(enc)
        THEN result = Ok(SubSeq(Buffer, Len(enc) + 1, avail), sent.pairs)
        ELSE IsIncomplete(result)

\* the decoder `name` on the bytes b
Decode(name, b) ==
  CASE name = "header" -> header(b)
    [] name = "complete_tag" -> complete_tag(b)
    [] name = "script_data_value" -> script_data_value(b)
    [] name = "script_data" -> script_data(b)

\* bytes a caller may append: what the stream holds next, and a few others
Extensions ==
  {SubSeq(stream, avail + 1, m) : m \in avail..Len(stream)}
    \cup {<<0>>, <<255>>, <<0, 0, 9>>, <<70, 76, 86>>}

\* C10: for header, complete_tag, script_data_value and script_data, a
\* Complete(v, r) on b becomes Complete(v, r ++ e) on b ++ e and a failure on b
\* stays a failure on b ++ e, for every e.
C10_FinalUnderAppendedBytes ==
  call \in {"header", "complete_tag", "script_data_value", "script_data"} =>
    \A e \in Extensions :
      /\ IsOk(result) => Decode(call, Buffer \o e) = Ok(result.rest \o e, result.v)
      /\ IsFailure(result) => IsFailure(Decode(call, Buffer \o e))

C10_Witness ==
  /\ call = "script_data_value" /\ IsOk(result) /\ result.v.t = "Object"
  /\ result.v.props # <<>> /\ avail < Len(stream)

\* the decoder `name` with the declared size sz on the bytes b
DecodeSized(name, sz, b) ==
  CASE name = "complete_tag" -> complete_tag(b)
    [] name = "audio_data" -> audio_data(b, sz)
    [] name = "video_data" -> video_data(b, sz)
    [] name = "aac_audio_packet" -> aac_audio_packet(b, sz)
    [] name = "avc_video_packet" -> avc_video_packet(b, sz)

Zeros(n) == [j \in 1..n |-> 0]

\* a tag header that declares one byte of payload
HeaderFill == <<9, 0, 0, 1, 0, 0, 0, 0, 0, 0, 0>>

\* The bytes that finish a prefix if any bytes do.  A payload decoder accepts
\* or refuses on its first byte alone (its composition time and data are
\* free), so a first byte of every decoder's valid codes followed by enough
\* bytes of any value decides it; a tag header is free but for its type and
\* data size, which HeaderFill keeps valid where the prefix left them open.
Completions ==
  LET fill == IF call = "complete_tag" /\ avail < 11
              THEN SubSeq(HeaderFill, avail + 1, 11) ELSE <<>>
  IN  {fill \o Zeros(n) : n \in 0..(4 + MaxData + MaxSize)}
        \cup {fill \o <<18>> \o Zeros(n) : n \in 0..(4 + MaxData + MaxSize)}

\* the data size of the buffered tag prefix is one that Completions can fill
SmallDataSize ==
  /\ avail >= 2 => Buffer[2] = 0
  /\ avail >= 3 => Buffer[3] = 0
  /\ avail >= 4 => Buffer[4] <= MaxSize

\* C11: whenever complete_tag, audio_data, video_data, aac_audio_packet or
\* avc_video_packet returns Incomplete, some extension of the input, with the
\* same declared size, makes the same call return Complete: Incomplete is
\* never reported for bytes that no continuation can complete.
C11_IncompleteIsValidPrefix ==
  ( /\ call \in {"complete_tag", "audio_data", "video_data",
                 "aac_audio_packet", "avc_video_packet"}
    /\ call = "complete_tag" => SmallDataSize
    /\ IsIncomplete(result) ) =>
    \E e \in Completions : IsOk(DecodeSized(call, size, Buffer \o e))
\* C12: script_data_strict_array on a count prefix N: a Complete result holds
\* exactly N elements, so N = 0 is Complete with the empty list and an
\* invalid element before the N-th is a failure, never a shorter list; a
\* well-formed array cut before its N-th element ends is Incomplete.
C12_StrictArrayHasDeclaredCount ==
  (call = "script_data_strict_array" /\ avail >= 4) =>
    LET N == be_u32(Buffer).v
    IN  /\ IsOk(result) => N = <<0, Len(result.v)>>
        /\ N = <<0, 0>> => result = Ok(Drop(Buffer, 4), <<>>)
        /\ (sent.kind = "array" /\ avail < Len(stream) - Len(sent.trailer)) =>
             IsIncomplete(result)
\* the packet type codes of an AVC packet
AvcPacketTypes == {0, 1, 2}

\* C13: avc_video_packet with size < 4 is a hard failure for every input;
\* with 4 <= size <= len(input) and a packet type code of 0, 1 or 2 it is
\* Complete with avc_data = input[4..size) and remainder input[size..], and
\* with any other packet type code it is a failure.
C13_AvcVideoPacket ==
  call = "avc_video_packet" =>
    /\ size < 4 => IsFailure(result)
    /\ (4 <= size /\ size <= avail) =>
         IF Buffer[1] \in AvcPacketTypes
         THEN /\ IsOk(result)
              /\ result.v.avc_data = SubSeq(Buffer, 5, size)
              /\ result.rest = SubSeq(Buffer, size + 1, avail)
         ELSE IsFailure(result)
Max(a, b) == IF a >= b THEN a ELSE b

RECURSIVE RecursionDepth(_)
RECURSIVE ObjectsDepth(_)
RECURSIVE ItemsDepth(_, _, _)

\* The deepest nesting of activations of script_data_value that decoding
\* `input` as one value reaches: the activation itself, and below it those
\* of the values of an Object, an ECMAArray or a StrictArray.
RecursionDepth(input) ==
  LET v == be_u8(input)
  IN  IF ~IsOk(v) THEN 1
      ELSE IF v.v = 3 THEN 1 + ObjectsDepth(v.rest)
      ELSE IF v.v = 8
        THEN LET n == be_u32(v.rest)
             IN  IF IsOk(n) THEN 1 + ObjectsDepth(n.rest) ELSE 1
      ELSE IF v.v = 10
        THEN LET n == be_u32(v.rest)
             IN  IF IsOk(n) /\ ~MinAboveMax(1, n.v)
                 THEN 1 + ItemsDepth(n.v, 0, n.rest) ELSE 1
      ELSE 1

\* the activations below the many0(script_data_object) loop on i
ObjectsDepth(i) ==
  LET name == script_data_string(i)
  IN  IF ~IsOk(name) THEN 0
      ELSE LET r == script_data_value(name.rest)
           IN  IF IsOk(r) /\ Len(r.rest) < Len(i)
               THEN Max(RecursionDepth(name.rest), ObjectsDepth(r.rest))
               ELSE RecursionDepth(name.rest)

\* the activations below the many_m_n(1, max, script_data_value) loop on i
ItemsDepth(max, count, i) ==
  IF ~BelowMax(count, max) THEN 0
  ELSE LET r == script_data_value(i)
       IN  IF IsOk(r) /\ Len(r.rest) < Len(i)
           THEN Max(RecursionDepth(i), ItemsDepth(max, count + 1, r.rest))
           ELSE RecursionDepth(i)

\* C14: script_data_value bounds its recursion: there is a fixed depth D
\* that its nested activations through Object, ECMAArray and StrictArray
\* values never exceed, however deep the input nests.  Stated for D =
\* MaxDepth levels below the outermost activation; DeepStreams nest deeper.
C14_RecursionDepthBounded ==
  call = "script_data_value" => RecursionDepth(Buffer) <= 1 + MaxDepth
=============================================================================
